---- MODULE Spec2Model ----
(***************************************************************************)
(* Model of src/loucura.jsx (SvgCsvMapEditor): the CSV field splitter and  *)
(* parser, the lookup index, the <path> attribute merger editSvg, and the *)
(* asynchronous handleFiles shell around them.                            *)
(*                                                                         *)
(* A JavaScript string is a sequence of one-character strings, so that the *)
(* regular expressions of the source are matched character by character.  *)
(***************************************************************************)
EXTENDS Integers, Sequences, FiniteSets, TLC

VARIABLES
    pc,          \* which specification runs and how far it got
    svgStr,      \* editSvg: the markup text handed to editSvg
    rows,        \* editSvg: the records handed to buildLookup
    calls,       \* editSvg: the locals of each replace-callback call, in order
    modified,    \* editSvg: the text editSvg returned
    again,       \* editSvg: editSvg of its own output, same lookup
    line,        \* parseCSVLine: the line
    result,      \* parseCSVLine: the fields returned
    svgText,     \* React state (line 14)
    csvText,     \* React state (line 15)
    status,      \* React state (line 16)
    downloadUrl, \* React state (line 17): <<>> is null, <<b>> the URL of blob b
    svgInput,    \* files of the svg <input>: <<>> or <<file>>
    csvInput,    \* files of the csv <input>: <<>> or <<file>>
    invocations, \* the handleFiles calls in flight and the last one made, in start order
    reads        \* the lone readFileAsText(...).then(setter) reads in flight (a set)

vars == <<pc, svgStr, rows, calls, modified, again, line, result, svgText,
          csvText, status, downloadUrl, svgInput, csvInput, invocations,
          reads>>

editVars == <<svgStr, rows, calls, modified, again>>
lineVars == <<line, result>>
uiVars == <<svgText, csvText, status, downloadUrl, svgInput, csvInput,
            invocations, reads>>

-----------------------------------------------------------------------------
(* Characters and the regular-expression primitives the source relies on.  *)

\* \s of a JavaScript regular expression, and the characters trim() removes
WhiteSpace == {" ", "\t", "\n", "\r", "\f"}

UpperCase == <<"A", "B", "C", "D", "E", "F", "G", "H", "I", "J", "K", "L", "M", "N", "O", "P", "Q", "R", "S", "T", "U", "V", "W", "X", "Y", "Z">>
LowerCase == <<"a", "b", "c", "d", "e", "f", "g", "h", "i", "j", "k", "l", "m", "n", "o", "p", "q", "r", "s", "t", "u", "v", "w", "x", "y", "z">>
DecimalDigits == <<"0", "1", "2", "3", "4", "5", "6", "7", "8", "9">>

Range(f) == {f[i] : i \in DOMAIN f}

\* \w: the characters on one side of \b
WordChars == Range(UpperCase) \cup Range(LowerCase) \cup Range(DecimalDigits) \cup {"_"}

LowerOf == [c \in Range(UpperCase) |-> LowerCase[CHOOSE i \in 1..Len(UpperCase) : UpperCase[i] = c]]

\* String.prototype.toLowerCase on one character
Lower(c) == IF c \in DOMAIN LowerOf THEN LowerOf[c] ELSE c

toLowerCase(s) == [i \in 1..Len(s) |-> Lower(s[i])]

\* two characters match under the i flag
EqCI(a, b) == a = b \/ Lower(a) = Lower(b)

Min(S) == CHOOSE x \in S : \A y \in S : x <= y

\* the literal lit matches s at position i, ignoring case
MatchAt(s, i, lit) ==
    /\ i >= 1
    /\ i + Len(lit) - 1 <= Len(s)
    /\ \A k \in 1..Len(lit) : EqCI(s[i + k - 1], lit[k])

\* first position >= i holding character c, 0 when there is none
RECURSIVE FirstIndex(_, _, _)
FirstIndex(s, i, c) ==
    IF i > Len(s) THEN 0
    ELSE IF s[i] = c THEN i
    ELSE FirstIndex(s, i + 1, c)

\* first position >= i that is not white space (Len(s) + 1 when all are)
RECURSIVE SkipWs(_, _)
SkipWs(s, i) ==
    IF i > Len(s) THEN i
    ELSE IF s[i] \in WhiteSpace THEN SkipWs(s, i + 1)
    ELSE i

\* String.prototype.trim
RECURSIVE TrimEnd(_)
TrimEnd(s) ==
    IF s # <<>> /\ s[Len(s)] \in WhiteSpace THEN TrimEnd(SubSeq(s, 1, Len(s) - 1)) ELSE s

trim(s) == TrimEnd(SubSeq(s, SkipWs(s, 1), Len(s)))

\* a || b on strings: the empty string (and undefined) is falsy
Or(a, b) == IF a # <<>> THEN a ELSE b

-----------------------------------------------------------------------------
(* parseCSVLine, parseCSV, buildLookup                                     *)

\* the loop of lines 51-67 from index i (1-based) on, then line 68
RECURSIVE parseCSVLineFrom(_, _, _, _, _)
parseCSVLineFrom(l, i, cur, inQuotes, res) ==
    IF i > Len(l) THEN Append(res, cur)
    ELSE IF l[i] = "\"" THEN
        IF inQuotes /\ i + 1 <= Len(l) /\ l[i + 1] = "\""
        THEN parseCSVLineFrom(l, i + 2, Append(cur, "\""), inQuotes, res)
        ELSE parseCSVLineFrom(l, i + 1, cur, ~inQuotes, res)
    ELSE IF l[i] = "," /\ ~inQuotes
        THEN parseCSVLineFrom(l, i + 1, <<>>, inQuotes, Append(res, cur))
    ELSE parseCSVLineFrom(l, i + 1, Append(cur, l[i]), inQuotes, res)

\* a splitter that leaves out the push of the last field (line 68)
parseCSVLineWithoutLastPush(l) ==
    LET r == parseCSVLineFrom(l, 1, <<>>, FALSE, <<>>) IN SubSeq(r, 1, Len(r) - 1)

\* lines 47-70
parseCSVLine(l) == parseCSVLineFrom(l, 1, <<>>, FALSE, <<>>)

\* text.replace(/\r\n/g, "\n").split("\n")
RECURSIVE SplitLines(_, _, _)
SplitLines(text, i, cur) ==
    IF i > Len(text) THEN <<cur>>
    ELSE IF text[i] = "\r" /\ i + 1 <= Len(text) /\ text[i + 1] = "\n"
        THEN <<cur>> \o SplitLines(text, i + 2, <<>>)
    ELSE IF text[i] = "\n" THEN <<cur>> \o SplitLines(text, i + 1, <<>>)
    ELSE SplitLines(text, i + 1, Append(cur, text[i]))

\* .filter(l => l.trim() !== "")
NonBlank(ls) == SelectSeq(ls, LAMBDA l : trim(l) # <<>>)

\* lines 36-41: pad the values, then assign obj[headers[j]] = values[j] for
\* j = 0 .. headers.length - 1 (a repeated header keeps the last assignment)
RowObject(headers, values) ==
    [h \in Range(headers) |->
        LET j == CHOOSE k \in 1..Len(headers) :
                    /\ headers[k] = h
                    /\ \A m \in (k + 1)..Len(headers) : headers[m] # h
        IN IF j <= Len(values) THEN values[j] ELSE <<>>]

parseCSV(text) ==
    LET lines == NonBlank(SplitLines(text, 1, <<>>))
    IN IF lines = <<>> THEN <<>>
       ELSE LET parsed == parseCSVLine(lines[1])
                headers == [j \in 1..Len(parsed) |-> toLowerCase(trim(parsed[j]))]
            IN [i \in 1..(Len(lines) - 1) |-> RowObject(headers, parseCSVLine(lines[i + 1]))]

\* r.<name> || dflt: a missing column (undefined) and "" both give dflt
Field(r, name, dflt) == IF name \in DOMAIN r THEN Or(r[name], dflt) ELSE dflt

\* obj[key] = val on a map kept as a function from keys to values
Put(map, key, val) == [k \in DOMAIN map \cup {key} |-> IF k = key THEN val ELSE map[k]]

EmptyMap == [k \in {} |-> <<>>]

\* lines 72-84
RECURSIVE buildLookupFrom(_, _, _, _)
buildLookupFrom(rs, i, byId, byLabel) ==
    IF i > Len(rs) THEN [byId |-> byId, byLabel |-> byLabel]
    ELSE LET r == rs[i]
             id == trim(Field(r, <<"i", "d">>, <<>>))
             label == trim(Field(r, <<"l", "a", "b", "e", "l">>, <<>>))
             value == trim(Field(r, <<"v", "a", "l", "u", "e">>, <<"0">>))
             region == trim(Field(r, <<"r", "e", "g", "i", "o", "n">>, <<"0">>))
         IN buildLookupFrom(rs, i + 1,
                IF id # <<>> THEN Put(byId, id, [value |-> value, region |-> region, label |-> label])
                ELSE byId,
                IF label # <<>> THEN Put(byLabel, label, [value |-> value, region |-> region, id |-> id])
                ELSE byLabel)

buildLookup(rs) == buildLookupFrom(rs, 1, EmptyMap, EmptyMap)

\* Property names every plain object inherits from Object.prototype: byId and
\* byLabel are created as {} (lines 73-74), so lookup.byId[k] is truthy for
\* these k also when no row put k there.  The inherited values are functions
\* without value, region or label properties.
ObjectPrototypeKeys ==
    {<<"c", "o", "n", "s", "t", "r", "u", "c", "t", "o", "r">>, <<"t", "o", "S", "t", "r", "i", "n", "g">>, <<"v", "a", "l", "u", "e", "O", "f">>, <<"h", "a", "s", "O", "w", "n", "P", "r", "o", "p", "e", "r", "t", "y">>, <<"i", "s", "P", "r", "o", "t", "o", "t", "y", "p", "e", "O", "f">>,
     <<"p", "r", "o", "p", "e", "r", "t", "y", "I", "s", "E", "n", "u", "m", "e", "r", "a", "b", "l", "e">>, <<"t", "o", "L", "o", "c", "a", "l", "e", "S", "t", "r", "i", "n", "g">>}

\* whether map[key] is truthy (lines 116 and 121)
Truthy(map, key) == key \in DOMAIN map \/ key \in ObjectPrototypeKeys

\* map[key].<field> || dflt
Prop(map, key, field, dflt) ==
    IF key \in DOMAIN map THEN Or(map[key][field], dflt) ELSE dflt

-----------------------------------------------------------------------------
(* editSvg                                                                 *)

\* lines 86-90, v a string: v.toString().replace(/"/g, '&quot;')
RECURSIVE sanitizeAttrValue(_)
sanitizeAttrValue(v) ==
    IF v = <<>> THEN <<>>
    ELSE (IF v[1] = "\"" THEN <<"&", "q", "u", "o", "t", ";">> ELSE <<v[1]>>) \o sanitizeAttrValue(SubSeq(v, 2, Len(v)))

\* /<path\b[^>]*>/gi at position i: the position of the closing >, else 0
pathRegex(s, i) ==
    IF /\ MatchAt(s, i, <<"<", "p", "a", "t", "h">>)
       /\ i + 5 <= Len(s)
       /\ s[i + 5] \notin WordChars
    THEN FirstIndex(s, i + 5, ">")
    ELSE 0

\* /\s+NAME="[^"]*"/gi at position i, attr being NAME=" : the position of the
\* closing quote, else 0
stripRegex(s, i, attr) ==
    IF s[i] \notin WhiteSpace THEN 0
    ELSE LET k == SkipWs(s, i)
         IN IF MatchAt(s, k, attr) THEN FirstIndex(s, k + Len(attr), "\"") ELSE 0

\* tag.replace(/\s+NAME="[^"]*"/gi, ""), scanning from position i
RECURSIVE StripFrom(_, _, _)
StripFrom(s, i, attr) ==
    IF i > Len(s) THEN <<>>
    ELSE LET e == stripRegex(s, i, attr)
         IN IF e > 0 THEN StripFrom(s, e + 1, attr)
            ELSE <<s[i]>> \o StripFrom(s, i + 1, attr)

\* lines 98-101
Clean(tag) ==
    StripFrom(StripFrom(StripFrom(tag, 1, <<"l", "o", "n", "g", "-", "n", "a", "m", "e", "=", "\"">>), 1, <<"v", "a", "l", "u", "e", "=", "\"">>), 1, <<"r", "e", "g", "i", "o", "n", "=", "\"">>)

NoMatch == [found |-> FALSE, index |-> 0, group |-> <<>>]

\* clean.match(/inkscape:label="([^"]*)"/i)
labelMatch(clean) ==
    LET lit == <<"i", "n", "k", "s", "c", "a", "p", "e", ":", "l", "a", "b", "e", "l", "=", "\"">>
        I == {i \in 1..Len(clean) :
                MatchAt(clean, i, lit) /\ FirstIndex(clean, i + Len(lit), "\"") > 0}
    IN IF I = {} THEN NoMatch
       ELSE LET i == Min(I)
            IN [found |-> TRUE, index |-> i,
                group |-> SubSeq(clean, i + Len(lit), FirstIndex(clean, i + Len(lit), "\"") - 1)]

\* clean.match(/\sid="([^"]*)"/i)
idMatch(clean) ==
    LET lit == <<"i", "d", "=", "\"">>
        I == {i \in 1..Len(clean) :
                /\ clean[i] \in WhiteSpace
                /\ MatchAt(clean, i + 1, lit)
                /\ FirstIndex(clean, i + 1 + Len(lit), "\"") > 0}
    IN IF I = {} THEN NoMatch
       ELSE LET i == Min(I)
            IN [found |-> TRUE, index |-> i,
                group |-> SubSeq(clean, i + 1 + Len(lit),
                                 FirstIndex(clean, i + 1 + Len(lit), "\"") - 1)]

\* a resolution that tries the style-label before the id
ResolveLabelFirst(label, id, lookup) ==
    LET inkscapeLabel == label.group
        elemId == id.group
        dflt == [value |-> <<"0">>, region |-> <<"0">>, longName |-> Or(inkscapeLabel, <<"N", "o", "n", "e">>)]
    IN IF inkscapeLabel # <<>> /\ Truthy(lookup.byLabel, inkscapeLabel) THEN
            [value |-> Prop(lookup.byLabel, inkscapeLabel, "value", <<"0">>),
             region |-> Prop(lookup.byLabel, inkscapeLabel, "region", <<"0">>),
             longName |-> dflt.longName]
       ELSE IF elemId # <<>> /\ Truthy(lookup.byId, elemId) THEN
            [value |-> Prop(lookup.byId, elemId, "value", <<"0">>),
             region |-> Prop(lookup.byId, elemId, "region", <<"0">>),
             longName |-> Prop(lookup.byId, elemId, "label", dflt.longName)]
       ELSE dflt

\* lines 111-127; label and id are the two match results
Resolve(label, id, lookup) ==
    LET inkscapeLabel == label.group     \* null and "" are both falsy
        elemId == id.group
        dflt == [value |-> <<"0">>, region |-> <<"0">>, longName |-> Or(inkscapeLabel, <<"N", "o", "n", "e">>)]
    IN IF elemId # <<>> /\ Truthy(lookup.byId, elemId) THEN
            [value |-> Prop(lookup.byId, elemId, "value", <<"0">>),
             region |-> Prop(lookup.byId, elemId, "region", <<"0">>),
             longName |-> Prop(lookup.byId, elemId, "label", dflt.longName)]
       ELSE IF inkscapeLabel # <<>> /\ Truthy(lookup.byLabel, inkscapeLabel) THEN
            [value |-> Prop(lookup.byLabel, inkscapeLabel, "value", <<"0">>),
             region |-> Prop(lookup.byLabel, inkscapeLabel, "region", <<"0">>),
             longName |-> dflt.longName]
       ELSE dflt

indent == <<" ", " ", " ", " ">>

\* line 132
newlineAttrs(r) ==
    <<"\n">> \o indent \o <<"l", "o", "n", "g", "-", "n", "a", "m", "e", "=", "\"">> \o sanitizeAttrValue(r.longName) \o <<"\"">> \o
    <<"\n">> \o indent \o <<"v", "a", "l", "u", "e", "=", "\"">> \o sanitizeAttrValue(r.value) \o <<"\"">> \o
    <<"\n">> \o indent \o <<"r", "e", "g", "i", "o", "n", "=", "\"">> \o sanitizeAttrValue(r.region) \o <<"\"">>

DigitValue(c) == (CHOOSE i \in 1..10 : DecimalDigits[i] = c) - 1

IsDigit(c) == c \in Range(DecimalDigits)

\* String.prototype.replace with a replacement STRING expands the patterns
\* $$, $&, $`, $' and $n / $nn in it (ECMAScript GetSubstitution); the regular
\* expression of line 137 has one capture group, the whole match.
RECURSIVE GetSubstitution(_, _, _, _, _)
GetSubstitution(t, j, matched, before, after) ==
    IF j > Len(t) THEN <<>>
    ELSE IF t[j] # "$" \/ j = Len(t) THEN <<t[j]>> \o GetSubstitution(t, j + 1, matched, before, after)
    ELSE LET n == t[j + 1]
         IN IF n = "$" THEN <<"$">> \o GetSubstitution(t, j + 2, matched, before, after)
            ELSE IF n = "&" THEN matched \o GetSubstitution(t, j + 2, matched, before, after)
            ELSE IF n = "`" THEN before \o GetSubstitution(t, j + 2, matched, before, after)
            ELSE IF n = "'" THEN after \o GetSubstitution(t, j + 2, matched, before, after)
            ELSE IF IsDigit(n) THEN
                IF /\ j + 2 <= Len(t)
                   /\ IsDigit(t[j + 2])
                   /\ 10 * DigitValue(n) + DigitValue(t[j + 2]) <= 1
                THEN \* two digits: $01 is the group, $00 stays as written
                     (IF DigitValue(t[j + 2]) = 1 THEN matched ELSE SubSeq(t, j, j + 2))
                     \o GetSubstitution(t, j + 3, matched, before, after)
                ELSE \* one digit: $1 is the group, $2 .. $9 and $0 stay as written
                     (IF DigitValue(n) = 1 THEN matched ELSE SubSeq(t, j, j + 1))
                     \o GetSubstitution(t, j + 2, matched, before, after)
            ELSE <<"$">> \o GetSubstitution(t, j + 1, matched, before, after)

\* the first match of /(\s+id=")/i in clean: its first and last position
idInsertion(clean) ==
    LET I == {i \in 1..Len(clean) :
                clean[i] \in WhiteSpace /\ MatchAt(clean, SkipWs(clean, i), <<"i", "d", "=", "\"">>)}
    IN IF I = {} THEN <<0, 0>> ELSE <<Min(I), SkipWs(clean, Min(I)) + 3>>

\* an insertion with the replacement written `$1${newlineAttrs}`: the
\* attributes land after id=" instead of before it
InsertAfterId(clean, attrs) ==
    LET m == idInsertion(clean)
    IN IF m[1] = 0 THEN clean
       ELSE SubSeq(clean, 1, m[1] - 1)
            \o GetSubstitution(<<"$", "1">> \o attrs, 1, SubSeq(clean, m[1], m[2]),
                               SubSeq(clean, 1, m[1] - 1), SubSeq(clean, m[2] + 1, Len(clean)))
            \o SubSeq(clean, m[2] + 1, Len(clean))

\* line 137: clean.replace(/(\s+id=")/i, `${newlineAttrs}$1`)
InsertBeforeId(clean, attrs) ==
    LET m == idInsertion(clean)
    IN IF m[1] = 0 THEN clean
       ELSE SubSeq(clean, 1, m[1] - 1)
            \o GetSubstitution(attrs \o <<"$", "1">>, 1, SubSeq(clean, m[1], m[2]),
                               SubSeq(clean, 1, m[1] - 1), SubSeq(clean, m[2] + 1, Len(clean)))
            \o SubSeq(clean, m[2] + 1, Len(clean))

\* line 142: clean.replace(/>\s*$/, "")
withoutClose(clean) ==
    LET I == {i \in 1..Len(clean) : clean[i] = ">" /\ SkipWs(clean, i + 1) > Len(clean)}
    IN IF I = {} THEN clean ELSE SubSeq(clean, 1, Min(I) - 1)

\* lines 142-143
InsertBeforeClose(clean, attrs) == withoutClose(clean) \o attrs \o <<">">>

\* the replace callback of lines 96-145 on one matched tag: its locals and
\* what it returns
EditTag(tag, lookup) ==
    LET clean == Clean(tag)
        label == labelMatch(clean)
        id == idMatch(clean)
        r == Resolve(label, id, lookup)
        attrs == newlineAttrs(r)
    IN [tag |-> tag, clean |-> clean, labelMatch |-> label, idMatch |-> id,
        longName |-> r.longName, value |-> r.value, region |-> r.region,
        returned |-> IF id.found THEN InsertBeforeId(clean, attrs)
                     ELSE InsertBeforeClose(clean, attrs)]

\* the matches of pathRegex in s from position i on, left to right: <<first, last>>
RECURSIVE pathMatches(_, _)
pathMatches(s, i) ==
    IF i > Len(s) THEN <<>>
    ELSE LET e == pathRegex(s, i)
         IN IF e > 0 THEN <<<<i, e>>>> \o pathMatches(s, e + 1)
            ELSE pathMatches(s, i + 1)

\* the callback calls svgStr.replace(pathRegex, ...) makes, in order
editCalls(s, lookup) ==
    LET ms == pathMatches(s, 1)
    IN [k \in 1..Len(ms) |-> EditTag(SubSeq(s, ms[k][1], ms[k][2]), lookup)]

\* svgStr.replace(pathRegex, callback): the text between the matches is
\* copied, each match is replaced by what the callback returns for it
RECURSIVE replaceAll(_, _, _)
replaceAll(s, i, lookup) ==
    IF i > Len(s) THEN <<>>
    ELSE LET e == pathRegex(s, i)
         IN IF e > 0 THEN EditTag(SubSeq(s, i, e), lookup).returned \o replaceAll(s, e + 1, lookup)
            ELSE <<s[i]>> \o replaceAll(s, i + 1, lookup)

\* an editSvg whose pattern lacks the g flag: only the first match is replaced
editSvgFirstMatchOnly(s, lookup) ==
    LET ms == pathMatches(s, 1)
    IN IF ms = <<>> THEN s
       ELSE SubSeq(s, 1, ms[1][1] - 1)
            \o EditTag(SubSeq(s, ms[1][1], ms[1][2]), lookup).returned
            \o SubSeq(s, ms[1][2] + 1, Len(s))

\* lines 92-148
editSvg(s, lookup) == replaceAll(s, 1, lookup)

-----------------------------------------------------------------------------
(* Inputs of the editSvg specification                                     *)

MaxAttrs == 2

\* a parsed record with the four columns id, label, value, region
Row(id, label, value, region) ==
    [h \in {<<"i", "d">>, <<"l", "a", "b", "e", "l">>, <<"v", "a", "l", "u", "e">>, <<"r", "e", "g", "i", "o", "n">>} |->
        IF h = <<"i", "d">> THEN id ELSE IF h = <<"l", "a", "b", "e", "l">> THEN label
        ELSE IF h = <<"v", "a", "l", "u", "e">> THEN value ELSE region]

\* a parsed record of a table whose header names only id and value
ShortRow(id, value) == [h \in {<<"i", "d">>, <<"v", "a", "l", "u", "e">>} |-> IF h = <<"i", "d">> THEN id ELSE value]

Tables ==
    { <<>>,
      <<Row(<<"a">>, <<"N", "o", "r", "t", "h">>, <<"7">>, <<"2">>), Row(<<>>, <<"N">>, <<"9", "9">>, <<"9">>)>>,
      <<Row(<<"a">>, <<>>, <<>>, <<" ">>), Row(<<>>, <<"N">>, <<" ">>, <<"5">>)>>,
      <<Row(<<"a">>, <<"A", " ", ">", " ", "B">>, <<"7">>, <<"2">>)>>,
      <<Row(<<"a">>, <<"$", "&">>, <<"$", "$">>, <<"$", "1">>)>>,
      <<Row(<<"b">>, <<"s", "a", "y", " ", "\"", "h", "i", "\"">>, <<"1">>, <<"3">>), Row(<<" ", "b", " ">>, <<"N">>, <<"4">>, <<"6">>)>>,
      <<ShortRow(<<"a">>, <<"8">>), ShortRow(<<"c", "o", "n", "s", "t", "r", "u", "c", "t", "o", "r">>, <<"9">>)>> }

AttrPool ==
    { <<" ", "i", "d", "=", "\"", "a", "\"">>,
      <<" ", "i", "n", "k", "s", "c", "a", "p", "e", ":", "l", "a", "b", "e", "l", "=", "\"", "N", "\"">>,
      <<" ", "v", "a", "l", "u", "e", "=", "\"", "1", "\"">>,
      <<"\n", " ", " ", " ", " ", "l", "o", "n", "g", "-", "n", "a", "m", "e", "=", "\"", "x", "\"">>,
      <<" ", "d", "=", "\"", "M", "0", "\"">>,
      <<" ", "i", "d", "=", "\"", "c", "o", "n", "s", "t", "r", "u", "c", "t", "o", "r", "\"">>,
      <<" ", "i", "n", "k", "s", "c", "a", "p", "e", ":", "l", "a", "b", "e", "l", "=", "\"", "\"">> }

RECURSIVE Flatten(_)
Flatten(ss) == IF ss = <<>> THEN <<>> ELSE ss[1] \o Flatten(SubSeq(ss, 2, Len(ss)))

SeqsUpTo(S, n) == UNION {[1..k -> S] : k \in 0..n}

\* text around the tag: nothing, or other elements, a second, upper-case tag
\* and a third tag without attributes
Prefixes == { <<>>, <<"<", "g", ">", "\n", " ", " ">> }
Suffixes == { <<>>, <<"\n", "<", "p", "a", "t", "h", "w", "a", "y", " ", "d", "=", "\"", "\"", "/", ">", "<", "P", "A", "T", "H", "\t", "I", "D", "=", "\"", "b", "\"", "/", ">", " ", "<", "p", "a", "t", "h", "\n", "/", ">", "<", "/", "g", ">">> }
Closings == { <<">">>, <<"/", ">">> }

Documents ==
    { pre \o <<"<", "p", "a", "t", "h">> \o Flatten(as) \o cl \o suf :
        pre \in Prefixes, as \in SeqsUpTo(AttrPool, MaxAttrs), cl \in Closings, suf \in Suffixes }
    \cup Prefixes

-----------------------------------------------------------------------------
(* The editSvg specification: editSvg is applied to a document and a       *)
(* lookup, then to its own output.                                         *)

UiIdle ==
    /\ svgText = <<>> /\ csvText = <<>> /\ status = "" /\ downloadUrl = <<>>
    /\ svgInput = <<>> /\ csvInput = <<>> /\ invocations = <<>> /\ reads = {}

InitEdit ==
    /\ pc = "input"
    /\ svgStr \in Documents
    /\ rows \in Tables
    /\ calls = <<>> /\ modified = <<>> /\ again = <<>>
    /\ line = <<>> /\ result = <<>>
    /\ UiIdle

\* edited = editSvg(svgData, lookup), line 162
Merge ==
    /\ pc = "input"
    /\ pc' = "merged"
    /\ modified' = editSvg(svgStr, buildLookup(rows))
    /\ calls' = editCalls(svgStr, buildLookup(rows))
    /\ UNCHANGED <<svgStr, rows, again, lineVars, uiVars>>

\* the edited document is merged again with the same lookup
Remerge ==
    /\ pc = "merged"
    /\ pc' = "remerged"
    /\ again' = editSvg(modified, buildLookup(rows))
    /\ UNCHANGED <<svgStr, rows, calls, modified, lineVars, uiVars>>

NextEdit == Merge \/ Remerge

SpecEdit == InitEdit /\ [][NextEdit]_vars

-----------------------------------------------------------------------------
(* Claims about editSvg, checked under SpecEdit                            *)

lookupOfRows == buildLookup(rows)

Merged == pc \in {"merged", "remerged"}

\* v with every double quote written as &quot; and nothing else changed
Escaped(v) == Flatten([i \in 1..Len(v) |-> IF v[i] = "\"" THEN <<"&", "q", "u", "o", "t", ";">> ELSE <<v[i]>>])

\* the three attributes as the formatting rule writes them for a call
ExpectedAttrs(c) ==
    <<"\n", " ", " ", " ", " ", "l", "o", "n", "g", "-", "n", "a", "m", "e", "=", "\"">> \o Escaped(c.longName) \o <<"\"">> \o
    <<"\n", " ", " ", " ", " ", "v", "a", "l", "u", "e", "=", "\"">> \o Escaped(c.value) \o <<"\"">> \o
    <<"\n", " ", " ", " ", " ", "r", "e", "g", "i", "o", "n", "=", "\"">> \o Escaped(c.region) \o <<"\"">>

\* number of attributes NAME="..." (white space, name, quoted value) in a tag
RECURSIVE AttrCount(_, _, _)
AttrCount(tag, i, attr) ==
    IF i > Len(tag) THEN 0
    ELSE LET e == stripRegex(tag, i, attr)
         IN IF e > 0 THEN 1 + AttrCount(tag, e + 1, attr) ELSE AttrCount(tag, i + 1, attr)

\* the target tags of a text
TargetTags(s) == LET ms == pathMatches(s, 1) IN {SubSeq(s, m[1], m[2]) : m \in Range(ms)}

\* C1: merging the output of editSvg again with the same lookup returns that
\* output unchanged.
Idempotence == pc = "remerged" => again = modified

\* C2: every target tag of the output of editSvg holds exactly one long-name,
\* one value and one region attribute.
ExactlyOneTriple ==
    Merged => \A tag \in TargetTags(modified) :
                /\ AttrCount(tag, 1, <<"l", "o", "n", "g", "-", "n", "a", "m", "e", "=", "\"">>) = 1
                /\ AttrCount(tag, 1, <<"v", "a", "l", "u", "e", "=", "\"">>) = 1
                /\ AttrCount(tag, 1, <<"r", "e", "g", "i", "o", "n", "=", "\"">>) = 1

\* the text of s outside the target spans ms, with the k-th span replaced by
\* what the k-th callback call returned
RECURSIVE Weave(_, _, _, _, _)
Weave(s, ms, cs, k, from) ==
    IF k > Len(ms) THEN SubSeq(s, from, Len(s))
    ELSE SubSeq(s, from, ms[k][1] - 1) \o cs[k].returned \o Weave(s, ms, cs, k + 1, ms[k][2] + 1)

HasTarget(s) ==
    \E i \in 1..Len(s) : \E j \in (i + 5)..Len(s) :
        /\ MatchAt(s, i, <<"<", "p", "a", "t", "h">>) /\ s[i + 5] \notin WordChars /\ s[j] = ">"

\* C3: editSvg changes only the spans matched by the target tag pattern: the
\* output is the input with each span replaced by the callback's result for
\* it, every character outside the spans kept in place and order, and a text
\* without a target tag is returned as it is.
NonTargetPassthrough ==
    Merged =>
        /\ Len(calls) = Len(pathMatches(svgStr, 1))
        /\ modified = Weave(svgStr, pathMatches(svgStr, 1), calls, 1, 1)
        /\ (~HasTarget(svgStr) => modified = svgStr)

\* a merged text with three target tags, with other text before the first,
\* between them and after the last
NonTargetPassthroughWitness ==
    /\ pc = "merged"
    /\ Len(calls) = 3
    /\ pathMatches(svgStr, 1)[1][1] > 1
    /\ pathMatches(svgStr, 1)[2][1] > pathMatches(svgStr, 1)[1][2] + 1
    /\ pathMatches(svgStr, 1)[3][1] > pathMatches(svgStr, 1)[2][2] + 1
    /\ pathMatches(svgStr, 1)[3][2] < Len(svgStr)
    /\ modified # svgStr

\* the call's tag has an id attribute whose value is a key of byId
ById(c) == c.idMatch.found /\ c.idMatch.group \in DOMAIN lookupOfRows.byId

\* the call's tag has a style-label that is a key of byLabel
ByLabel(c) == c.labelMatch.found /\ c.labelMatch.group \in DOMAIN lookupOfRows.byLabel

\* C4 as stated: for a tag whose id is a key of byId, value and region are
\* those of the byId entry, and long-name is the entry's label if non-empty,
\* else the style-label if present, else "None".
IdentifierPrecedenceAsStated ==
    Merged => \A k \in 1..Len(calls) :
        LET c == calls[k]
            e == lookupOfRows.byId[c.idMatch.group]
        IN ById(c) =>
            /\ c.value = e.value
            /\ c.region = e.region
            /\ c.longName = IF e.label # <<>> THEN e.label
                            ELSE IF c.labelMatch.found THEN c.labelMatch.group
                            ELSE <<"N", "o", "n", "e">>

\* C4 amended: for a tag whose id is a key of byId, value and region are
\* those of the byId entry, "0" standing in for an empty one, whatever the
\* byLabel entry of the tag's style-label holds; long-name is the entry's
\* label if non-empty, else the style-label if present and non-empty, else
\* "None".
IdentifierPrecedence ==
    Merged => \A k \in 1..Len(calls) :
        LET c == calls[k]
            e == lookupOfRows.byId[c.idMatch.group]
        IN ById(c) =>
            /\ c.value = (IF e.value = <<>> THEN <<"0">> ELSE e.value)
            /\ c.region = (IF e.region = <<>> THEN <<"0">> ELSE e.region)
            /\ c.longName = IF e.label # <<>> THEN e.label
                            ELSE IF c.labelMatch.found /\ c.labelMatch.group # <<>>
                                 THEN c.labelMatch.group
                            ELSE <<"N", "o", "n", "e">>

\* a tag whose id is a key of byId and whose style-label is a key of byLabel
\* with another value and region
IdentifierPrecedenceWitness ==
    /\ pc = "merged"
    /\ \E k \in 1..Len(calls) :
        LET c == calls[k]
        IN /\ ById(c) /\ ByLabel(c)
           /\ lookupOfRows.byLabel[c.labelMatch.group].value # lookupOfRows.byId[c.idMatch.group].value
           /\ lookupOfRows.byLabel[c.labelMatch.group].region # lookupOfRows.byId[c.idMatch.group].region
           /\ c.value = lookupOfRows.byId[c.idMatch.group].value
           /\ c.longName = lookupOfRows.byId[c.idMatch.group].label

\* C5: for a tag whose id is absent or no key of byId: if its style-label is
\* a key of byLabel, value and region are those of the byLabel entry and
\* long-name is the style-label; otherwise value and region are "0" and
\* long-name is the style-label if present, else "None".  (Stated with "0"
\* standing in for an empty entry value and "None" for an empty style-label,
\* as the resolution does in every branch.)
LabelFallbackAndDefault ==
    Merged => \A k \in 1..Len(calls) :
        LET c == calls[k]
            e == lookupOfRows.byLabel[c.labelMatch.group]
        IN ~ById(c) =>
            IF ByLabel(c)
            THEN /\ c.value = (IF e.value = <<>> THEN <<"0">> ELSE e.value)
                 /\ c.region = (IF e.region = <<>> THEN <<"0">> ELSE e.region)
                 /\ c.longName = c.labelMatch.group
            ELSE /\ c.value = <<"0">>
                 /\ c.region = <<"0">>
                 /\ c.longName = IF c.labelMatch.found /\ c.labelMatch.group # <<>>
                                 THEN c.labelMatch.group
                                 ELSE <<"N", "o", "n", "e">>

\* first position of the white space run that ends at position i
RECURSIVE RunStart(_, _)
RunStart(s, i) == IF i > 1 /\ s[i - 1] \in WhiteSpace THEN RunStart(s, i - 1) ELSE i

\* C6: in both branches the callback returns the stripped tag with the three
\* attributes inserted, each on its own line after four spaces, the text
\* between the quotes being the resolved string with " written as &quot;.
AttributeValueFidelity ==
    Merged => \A k \in 1..Len(calls) :
        LET c == calls[k]
            p == RunStart(c.clean, c.idMatch.index)
        IN c.returned =
            IF c.idMatch.found
            THEN SubSeq(c.clean, 1, p - 1) \o ExpectedAttrs(c) \o SubSeq(c.clean, p, Len(c.clean))
            ELSE SubSeq(c.clean, 1, Len(c.clean) - 1) \o ExpectedAttrs(c) \o <<">">>

\* s ends with t
EndsWith(s, t) == Len(t) <= Len(s) /\ SubSeq(s, Len(s) - Len(t) + 1, Len(s)) = t

\* s starts with t
StartsWith(s, t) == Len(t) <= Len(s) /\ SubSeq(s, 1, Len(t)) = t

\* C7: with an id attribute in the stripped tag, the new attributes are
\* inserted right before the first id attribute occurrence (its leading
\* white space included) and the stripped tag is unchanged before and after
\* them; without one, they are inserted right before the closing > and the
\* rest of the stripped tag is unchanged.
InsertionPosition ==
    Merged => \A k \in 1..Len(calls) :
        LET c == calls[k]
            p == RunStart(c.clean, c.idMatch.index)
            inserted == SubSeq(c.returned, p, Len(c.returned) - (Len(c.clean) - p + 1))
        IN IF c.idMatch.found
           THEN /\ Len(c.returned) > Len(c.clean)
                /\ StartsWith(c.returned, SubSeq(c.clean, 1, p - 1))
                /\ EndsWith(c.returned, SubSeq(c.clean, p, Len(c.clean)))
                /\ StartsWith(inserted, <<"\n", " ", " ", " ", " ", "l", "o", "n", "g", "-", "n", "a", "m", "e", "=", "\"">>)
                /\ \A q \in 1..(p - 1) : ~(c.clean[q] \in WhiteSpace /\ MatchAt(c.clean, q + 1, <<"i", "d", "=", "\"">>))
           ELSE /\ c.clean[Len(c.clean)] = ">"
                /\ c.returned = SubSeq(c.clean, 1, Len(c.clean) - 1) \o ExpectedAttrs(c) \o <<">">>

\* one call in each branch: a tag with an id attribute that is not its first
\* attribute, and a tag without one
InsertionPositionWitness ==
    /\ pc = "merged"
    /\ \E k \in 1..Len(calls) :
        /\ calls[k].idMatch.found
        /\ calls[k].idMatch.index > 6
        /\ calls[k].labelMatch.found
    /\ \E k \in 1..Len(calls) : ~calls[k].idMatch.found

-----------------------------------------------------------------------------
(* The parseCSVLine specification: parseCSVLine is applied to a line.      *)

MaxLineLen == 6

LineChars == {"a", ",", "\""}

Lines == SeqsUpTo(LineChars, MaxLineLen)

InitLine ==
    /\ pc = "line"
    /\ line \in Lines
    /\ result = <<>>
    /\ svgStr = <<>> /\ rows = <<>> /\ calls = <<>> /\ modified = <<>> /\ again = <<>>
    /\ UiIdle

\* const values = parseCSVLine(lines[i]), line 35
Split ==
    /\ pc = "line"
    /\ pc' = "split"
    /\ result' = parseCSVLine(line)
    /\ UNCHANGED <<line, editVars, uiVars>>

NextLine == Split

SpecLine == InitLine /\ [][NextLine]_vars

\* number of double quotes among the first n characters of l
QuotesBefore(l, n) == Cardinality({i \in 1..n : l[i] = "\""})

\* a position is outside quotes when an even number of quotes precedes it
Outside(l, i) == QuotesBefore(l, i - 1) % 2 = 0

\* the commas of l that lie outside double quotes, in order
Separators(l) ==
    LET S == {i \in 1..Len(l) : l[i] = "," /\ Outside(l, i)}
    IN [k \in 1..Cardinality(S) |-> CHOOSE i \in S : Cardinality({j \in S : j < i}) = k - 1]

\* the first and last position of the k-th stretch between separators
FieldFirst(l, k) == IF k = 1 THEN 1 ELSE Separators(l)[k - 1] + 1
FieldLast(l, k) == IF k > Len(Separators(l)) THEN Len(l) ELSE Separators(l)[k] - 1

NoQuotes(s) == SelectSeq(s, LAMBDA c : c # "\"")

\* the runs of consecutive quotes in positions a..b of l, as <<first, last>>
QuoteRuns(l, a, b) ==
    {<<i, j>> \in (a..b) \X (a..b) :
        /\ i <= j
        /\ \A m \in i..j : l[m] = "\""
        /\ (i = a \/ l[i - 1] # "\"")
        /\ (j = b \/ l[j + 1] # "\"")}

\* literal quotes a run of n quotes yields: when it starts outside quotes its
\* first quote opens the field, and every further pair is one literal quote
RunLiterals(l, run) ==
    LET n == run[2] - run[1] + 1
    IN IF Outside(l, run[1]) THEN (n - 1) \div 2 ELSE n \div 2

\* literal quotes the runs of S yield together
RECURSIVE SumLiterals(_, _)
SumLiterals(l, S) ==
    IF S = {} THEN 0
    ELSE LET x == CHOOSE y \in S : TRUE IN RunLiterals(l, x) + SumLiterals(l, S \ {x})

\* C8: parseCSVLine splits exactly at the commas outside double quotes; the
\* quotes that toggle the state are not copied, a doubled quote inside quotes
\* yields one literal quote, every other character is copied unchanged, and
\* after an unterminated quote the rest of the line is one trailing field.
FieldSplitter ==
    pc = "split" =>
        /\ Len(result) = Len(Separators(line)) + 1
        /\ \A k \in 1..Len(result) :
            LET a == FieldFirst(line, k)
                b == FieldLast(line, k)
            IN /\ NoQuotes(result[k]) = NoQuotes(SubSeq(line, a, b))
               /\ Len(result[k]) - Len(NoQuotes(result[k])) = SumLiterals(line, QuoteRuns(line, a, b))
        /\ (QuotesBefore(line, Len(line)) % 2 = 1 =>
                LET q == CHOOSE i \in 1..Len(line) :
                            line[i] = "\"" /\ \A j \in (i + 1)..Len(line) : line[j] # "\""
                IN EndsWith(result[Len(result)], SubSeq(line, q + 1, Len(line))))

\* a line split in two whose last field keeps a comma and a literal quote
\* and whose quote is never closed
FieldSplitterWitness ==
    /\ pc = "split"
    /\ Len(result) = 2
    /\ \E i, j \in 1..Len(result[2]) : result[2][i] = "," /\ result[2][j] = "\""
    /\ QuotesBefore(line, Len(line)) % 2 = 1

-----------------------------------------------------------------------------
(* The page: the two file inputs, the two buttons, handleFiles and the     *)
(* file reads in flight.  A file is known by its text.                     *)

MaxInvocations == 2

SvgFiles == { <<"<", "p", "a", "t", "h", " ", "i", "d", "=", "\"", "a", "\"", "/", ">">>, <<"<", "g", ">", "<", "p", "a", "t", "h", " ", "i", "n", "k", "s", "c", "a", "p", "e", ":", "l", "a", "b", "e", "l", "=", "\"", "N", "\"", "/", ">", "<", "/", "g", ">">> }

CsvFiles == { <<"I", "D", ",", "L", "a", "b", "e", "l", ",", "V", "A", "L", "U", "E", "\r", "\n", "\r", "\n", "a", ",", "\"", "R", "e", "g", "i", "o", "n", ",", " ", "N", "o", "r", "t", "h", "\"", ",", "1", "0", "\r", "\n", ",", "N", ",", "7">> }

\* lines 158-162: what handleFiles makes of the two texts it read, for each
\* pair of files
Edited == [svgData \in SvgFiles, csvData \in CsvFiles |->
                editSvg(svgData, buildLookup(parseCSV(csvData)))]

edited(svgData, csvData) == Edited[svgData, csvData]

InitUI ==
    /\ pc = "page"
    /\ UiIdle
    /\ svgStr = <<>> /\ rows = <<>> /\ calls = <<>> /\ modified = <<>> /\ again = <<>>
    /\ line = <<>> /\ result = <<>>

\* an invocation both of whose reads have settled
Settled(inv) == inv.svgRead # "pending" /\ inv.csvRead # "pending"

Unsettled(invs) == SelectSeq(invs, LAMBDA inv : ~Settled(inv))

\* invocations keeps the handleFiles calls with a read in flight and, last,
\* the call made last: a settled call is forgotten once it is not the last
Forget(invs) ==
    IF invs = <<>> THEN invs
    ELSE Unsettled(SubSeq(invs, 1, Len(invs) - 1)) \o <<invs[Len(invs)]>>

\* handleFiles up to its await (lines 150-153): both reads are started
handleFiles(svgFile, csvFile) ==
    /\ Len(Unsettled(invocations)) < MaxInvocations
    /\ status' = "Lendo arquivos..."
    /\ invocations' = Append(Unsettled(invocations),
            [svgFile |-> svgFile, csvFile |-> csvFile,
             svgRead |-> "pending", csvRead |-> "pending", state |-> "awaiting"])

\* readFileAsText(file).then(setter), lines 196 and 215.  reads holds the
\* lone reads in flight; the next file is selected after the lone read of
\* the one before has settled.
readFileAsText(setter, file) ==
    /\ reads = {}
    /\ reads' = reads \cup {[setter |-> setter, file |-> file]}

\* onChange of the svg input (lines 189-198)
SvgOnChange(f) ==
    /\ pc = "page"
    /\ svgInput # <<f>>
    /\ svgInput' = <<f>>
    /\ IF csvInput # <<>>
       THEN handleFiles(f, csvInput[1]) /\ UNCHANGED reads
       ELSE readFileAsText("setSvgText", f) /\ UNCHANGED <<status, invocations>>
    /\ UNCHANGED <<pc, editVars, lineVars, svgText, csvText, downloadUrl, csvInput>>

\* onChange of the csv input (lines 209-217)
CsvOnChange(f) ==
    /\ pc = "page"
    /\ csvInput # <<f>>
    /\ csvInput' = <<f>>
    /\ IF svgInput # <<>>
       THEN handleFiles(svgInput[1], f) /\ UNCHANGED reads
       ELSE readFileAsText("setCsvText", f) /\ UNCHANGED <<status, invocations>>
    /\ UNCHANGED <<pc, editVars, lineVars, svgText, csvText, downloadUrl, svgInput>>

\* onClick of "Gerar mapa editado" (lines 225-232)
Generate ==
    /\ pc = "page"
    /\ IF svgInput = <<>>
       THEN status' = "Selecione o SVG primeiro" /\ UNCHANGED invocations
       ELSE IF csvInput = <<>>
       THEN status' = "Selecione o CSV primeiro" /\ UNCHANGED invocations
       ELSE handleFiles(svgInput[1], csvInput[1])
    /\ UNCHANGED <<pc, editVars, lineVars, svgText, csvText, downloadUrl, svgInput,
                   csvInput, reads>>

\* onClick of "Limpar" (lines 249-258); the reads in flight are not cancelled
Limpar ==
    /\ pc = "page"
    /\ svgText' = <<>>
    /\ csvText' = <<>>
    /\ downloadUrl' = <<>>
    /\ status' = ""
    /\ svgInput' = <<>>
    /\ csvInput' = <<>>
    /\ UNCHANGED <<pc, editVars, lineVars, invocations, reads>>

\* lines 154-169, run when Promise.all fulfils: inv is invocation i with both
\* reads loaded.  The object URL is known by the blob it names; the URL that
\* line 166 revokes is the one of the render the call was made in, which
\* line 168 replaces, and the browser's store of object URLs is not modelled.
Fulfilled(i, inv) ==
    /\ svgText' = inv.svgFile
    /\ csvText' = inv.csvFile
    /\ downloadUrl' = <<edited(inv.svgFile, inv.csvFile)>>
    /\ status' = "Pronto - arquivo editado gerado."
    /\ invocations' = Forget([invocations EXCEPT ![i] = [inv EXCEPT !.state = "done"]])

\* a catch block that also withdraws the offered download
RejectedClearing(i, inv) ==
    /\ status' = "Erro: undefined"
    /\ downloadUrl' = <<>>
    /\ invocations' = Forget([invocations EXCEPT ![i] = [inv EXCEPT !.state = "failed"]])
    /\ UNCHANGED <<svgText, csvText>>

\* lines 170-173, run when Promise.all rejects: reader.onerror rejects with
\* the error event, which has no message property
Rejected(i, inv) ==
    /\ status' = "Erro: undefined"
    /\ invocations' = Forget([invocations EXCEPT ![i] = [inv EXCEPT !.state = "failed"]])
    /\ UNCHANGED <<svgText, csvText, downloadUrl>>

\* reader.onload (outcome "loaded") or reader.onerror (outcome "error") of
\* one of the two reads of invocation i (lines 22-23), and with it what the
\* settled Promise.all of line 153 resumes in handleFiles
FileRead(i, which, outcome) ==
    /\ pc = "page"
    /\ i \in 1..Len(invocations)
    /\ invocations[i][which] = "pending"
    /\ LET inv == [invocations[i] EXCEPT ![which] = outcome]
       IN IF inv.state = "awaiting" /\ outcome = "error"
          THEN Rejected(i, inv)
          ELSE IF inv.state = "awaiting" /\ inv.svgRead = "loaded" /\ inv.csvRead = "loaded"
          THEN Fulfilled(i, inv)
          ELSE /\ invocations' = Forget([invocations EXCEPT ![i] = inv])
               /\ UNCHANGED <<svgText, csvText, downloadUrl, status>>
    /\ UNCHANGED <<pc, editVars, lineVars, svgInput, csvInput, reads>>

\* the lone read r settles: .then(setSvgText) or .then(setCsvText) runs on
\* load; a failed read is an unhandled rejection and sets nothing
LoneRead(r, outcome) ==
    /\ pc = "page"
    /\ r \in reads
    /\ reads' = reads \ {r}
    /\ svgText' = IF outcome = "loaded" /\ r.setter = "setSvgText" THEN r.file ELSE svgText
    /\ csvText' = IF outcome = "loaded" /\ r.setter = "setCsvText" THEN r.file ELSE csvText
    /\ UNCHANGED <<pc, editVars, lineVars, status, downloadUrl, svgInput, csvInput, invocations>>

NextUI ==
    \/ \E f \in SvgFiles : SvgOnChange(f)
    \/ \E f \in CsvFiles : CsvOnChange(f)
    \/ Generate
    \/ Limpar
    \/ \E i \in 1..(MaxInvocations + 1), which \in {"svgRead", "csvRead"}, outcome \in {"loaded", "error"} :
            FileRead(i, which, outcome)
    \/ \E r \in reads, outcome \in {"loaded", "error"} : LoneRead(r, outcome)

SpecUI == InitUI /\ [][NextUI]_vars

\* a read of invocation i fails, or settles after another read of it failed
ReadOfFailing(i, which) ==
    \/ FileRead(i, which, "error")
    \/ invocations[i].state = "failed" /\ FileRead(i, which, "loaded")

\* handleFiles is called
Started == \E s \in SvgFiles, c \in CsvFiles : handleFiles(s, c)

\* C9: an invocation of handleFiles one of whose reads fails changes none of
\* svgText, csvText and downloadUrl: not when it starts, not in the step in
\* which the read fails, where it sets the status to an error message, and
\* not when its other read settles later; so it produces and offers no
\* edited document.
AllOrNothing ==
    [][/\ Started => svgText' = svgText /\ csvText' = csvText /\ downloadUrl' = downloadUrl
       /\ \A i \in 1..Len(invocations), which \in {"svgRead", "csvRead"} :
            ReadOfFailing(i, which) =>
                /\ svgText' = svgText
                /\ csvText' = csvText
                /\ downloadUrl' = downloadUrl
                /\ status' = IF invocations[i].state = "awaiting" THEN "Erro: undefined" ELSE status]_vars

\* the last invocation failed on its svg read after its csv read had loaded,
\* while the page shows and offers the result of an earlier invocation on
\* another file
AllOrNothingWitness ==
    /\ pc = "page"
    /\ Len(invocations) = 1
    /\ invocations[1].state = "failed"
    /\ invocations[1].svgRead = "error"
    /\ invocations[1].csvRead = "loaded"
    /\ status = "Erro: undefined"
    /\ svgText \in SvgFiles
    /\ svgText # invocations[1].svgFile
    /\ csvText \in CsvFiles
    /\ downloadUrl = <<edited(svgText, csvText)>>

\* Both inputs are emptied only by Limpar, and a selection that fills the
\* second input starts an invocation: with an invocation made, both inputs
\* empty means Limpar was clicked after the last one started, and the inputs
\* holding the files of the last invocation means it was not.
ClearedSinceLastStart == svgInput = <<>> /\ csvInput = <<>>

InputsOfLastStart ==
    /\ svgInput = <<invocations[Len(invocations)].svgFile>>
    /\ csvInput = <<invocations[Len(invocations)].csvFile>>

\* C10: once the overlapping handleFiles invocations have all finished, the
\* page offers and shows the result of the one started last.
LatestInvocationWins ==
    ( /\ Len(invocations) = 1
      /\ invocations[1].state = "done"
      /\ InputsOfLastStart )
    => /\ downloadUrl = <<edited(invocations[1].svgFile, invocations[1].csvFile)>>
       /\ reads = {} => svgText = invocations[1].svgFile /\ csvText = invocations[1].csvFile

\* C10, its second half: a Limpar clicked after an invocation started is not
\* undone by that invocation's completion.  It fails as well: the completion
\* sets svgText, csvText and downloadUrl again.
LimparNotUndone ==
    (invocations # <<>> /\ ClearedSinceLastStart) => downloadUrl = <<>>

====
